---- MODULE Spec2Model ----
(***************************************************************************)
(* Room / voting lifecycle of MovieZangTV (Convex backend).                *)
(*                                                                         *)
(* The store is the set of Convex tables the handlers of convex/rooms      *)
(* (src/convex/presence.ts, second half), convex/votes                     *)
(* (src/unnamed/part_004) and convex/movies (src/unnamed/part_003) read    *)
(* and write.  Every handler is registered with `mutation` or `query` of   *)
(* convex/server: a mutation runs as ONE serializable transaction, and a   *)
(* handler that throws aborts its transaction, so that none of the writes  *)
(* it made before the throw is committed; a query cannot write.  One       *)
(* action of the model is therefore one whole handler call.                *)
(*                                                                         *)
(* Row ids are positions of creation (rooms, movies).  The handlers reach  *)
(* roomParticipants and votes only through the by_room index, so each of   *)
(* the two tables is kept as that index: per room, the rows in creation    *)
(* order, which is the order `.first()` and `.collect()` see.  The         *)
(* write-only timestamps createdAt, joinedAt and votedAt are read by no    *)
(* handler and are left out; votingCompletedAt is kept.                    *)
(* roomMovies is kept the same way.  Of a movie the tmdbId and the title   *)
(* are kept, the other fields being copied like the title.                 *)
(*                                                                         *)
(* populateRoomWithMovies (src/convex/roomSetup.ts) is a Convex `action`:  *)
(* it is no transaction, and each mutation it runs is a step of its own.   *)
(***************************************************************************)
EXTENDS Integers, Sequences, FiniteSets, TLC

(* ---------------------------- bounds ----------------------------------- *)
MaxRooms == 2
NumCodes == 2
MaxMovies == 1
MaxTicks == 2
MaxVotes == 3
MaxStatusVotes == 1
MaxCatalog == 2
MaxCalls == 2

(* ------------------------- program constants --------------------------- *)
MinCode == 1000
MaxAttempts == 10
DefaultMaxParticipants == 10
DayMs == 24 * 60 * 60 * 1000
SlateSize == 25

(* ------------------------------ inputs --------------------------------- *)
\* participantId / hostId are opaque caller-supplied strings
Participants == {"alice", "bob", "carol"}
Hosts == {"alice"}
Categories == {"popular"}
\* the codes generateRoomCode can return, cut down from 1000..9999
Codes == MinCode .. (MinCode + NumCodes - 1)
\* maxParticipants is v.optional(v.number()): absent <<>>, or a number <<n>>
Absent == <<>>
MaxParticipantsArgs == {Absent, <<0>>, <<2>>}
RoomIds == 1 .. MaxRooms
MovieIds == 1 .. MaxMovies
TmdbIds == 550 .. (550 + MaxMovies - 1)
VoteTypes == {"like", "dislike"}
\* title is v.string(); a movie of the catalog can come without one
Titles == {"Fight Club"}
NoTitle == "(undefined)"
\* the movies a fetch from the catalog can return: TMDBMovie, id and title
CatalogIds == 550 .. (550 + MaxCatalog - 1)
Candidates ==
    {[id |-> 550, title |-> "Fight Club"], [id |-> 550, title |-> "Fight Club (1999)"]}
    \cup {[id |-> c, title |-> "Heat"] : c \in CatalogIds \ {550}}
    \cup {[id |-> 550 + MaxCatalog - 1, title |-> NoTitle]}
\* tmdbResponse.results: the pages of at most MaxCatalog movies
FetchResults == UNION {[1 .. n -> Candidates] : n \in 0 .. MaxCatalog}
\* the keys of CATEGORY_TO_GENRE_ID
GenreCategories ==
    {"popular", "action", "adventure", "animation", "comedy", "crime", "documentary",
     "drama", "family", "fantasy", "history", "horror", "music", "mystery", "romance",
     "sci-fi", "thriller", "war", "western"}
\* the clock advances in steps of one room lifetime
ClockStep == DayMs
StartTime == ClockStep
Undefined == -1

VARIABLES
    rooms,             \* table rooms: sequence of rows, _id = position
    roomParticipants,  \* table roomParticipants by its by_room index
    movies,            \* table movies: sequence of rows, _id = position
    votes,             \* table votes by its by_room index
    roomMovies,        \* table roomMovies by its by_room index
    populating,        \* the calls of populateRoomWithMovies, in flight or ended
    clients,           \* per participant, the state of the app's screens
    now,               \* Date.now()
    lastRead,          \* the response of the most recent query, if no
                       \* mutation and no clock step came after it
    latestVote         \* history: the votes accepted, latest last per key

vars == <<rooms, roomParticipants, movies, votes, roomMovies, populating, clients,
          now, lastRead, latestVote>>
store == <<rooms, roomParticipants, movies, votes, roomMovies>>

DB == [rooms |-> rooms, roomParticipants |-> roomParticipants,
       movies |-> movies, votes |-> votes, roomMovies |-> roomMovies]

(* ------------------------------ helpers -------------------------------- *)
Range(s) == {s[i] : i \in DOMAIN s}

\* indices of the rows of table t that satisfy P, and `.first()` of them
Matching(t, P(_)) == {i \in DOMAIN t : P(t[i])}

FirstIdx(S) == IF S = {} THEN 0 ELSE CHOOSE i \in S : \A j \in S : i <= j

RemoveAt(s, i) == SubSeq(s, 1, i - 1) \o SubSeq(s, i + 1, Len(s))

\* .withIndex("by_room", q => q.eq("roomId", roomId)).collect()
ByRoom(t, roomId) == IF roomId \in DOMAIN t THEN t[roomId] ELSE <<>>

\* .withIndex("by_code", q => q.eq("code", code)).first()
RoomByCode(db, code) == FirstIdx(Matching(db.rooms, LAMBDA r : r.code = code))

\* by_room index filtered on participantId, .first()
ParticipantIdx(db, roomId, participantId) ==
    FirstIdx(Matching(ByRoom(db.roomParticipants, roomId),
        LAMBDA row : row.participantId = participantId))

Thrown(db, msg) == [threw |-> TRUE, err |-> msg, db |-> db, val |-> <<>>]
Returned(db, val) == [threw |-> FALSE, err |-> "", db |-> db, val |-> val]

\* without the abort: the writes made before a throw stay
CommitNoAbort(before, out) == out.db

\* the transaction of a mutation: committed on return, aborted on throw
Commit(before, out) == IF out.threw THEN before ELSE out.db

NoRead == [op |-> "none"]

\* a client that has not opened the room screen
AtHome == [screen |-> "home", roomId |-> 0, currentIndex |-> 0, hasMarkedComplete |-> FALSE]

(* ------------------------------ createRoom ----------------------------- *)
\* the allocation loop without the by_code lookup
AllocOutcomesNoCheck(db, attempts) ==
    {[ok |-> TRUE, code |-> c, lookups |-> 1] : c \in Codes}

\* The allocation loop of createRoom.  generateRoomCode is a random draw,
\* so the loop is given by the set of its outcomes: the outcomes of the
\* iterations from `attempts` on, over every code the variable `code` can
\* hold at that point.  An iteration looks the code up; an absent code
\* leaves the loop, a stored one draws again and counts the attempt.
RECURSIVE AllocOutcomes(_, _)
AllocOutcomes(db, attempts) ==
    IF attempts < MaxAttempts
    THEN LET used == {c \in Codes : RoomByCode(db, c) # 0}
         IN  {[ok |-> TRUE, code |-> c, lookups |-> attempts + 1] : c \in Codes \ used}
             \cup (IF used # {} THEN AllocOutcomes(db, attempts + 1) ELSE {})
    ELSE {[ok |-> FALSE, code |-> 0, lookups |-> attempts]}

\* the allocation loop with one attempt more
RECURSIVE AllocRunOneMore(_, _, _)
AllocRunOneMore(db, draws, attempts) ==
    IF attempts < MaxAttempts + 1
    THEN IF RoomByCode(db, draws[attempts + 1]) = 0
         THEN [ok |-> TRUE, code |-> draws[attempts + 1], lookups |-> attempts + 1]
         ELSE AllocRunOneMore(db, draws, attempts + 1)
    ELSE [ok |-> FALSE, code |-> 0, lookups |-> attempts]

\* One run of the allocation loop of createRoom: draws[i] is what the i-th
\* call of generateRoomCode returns, so that `code` is draws[attempts + 1].
RECURSIVE AllocRun(_, _, _)
AllocRun(db, draws, attempts) ==
    IF attempts < MaxAttempts
    THEN IF RoomByCode(db, draws[attempts + 1]) = 0
         THEN [ok |-> TRUE, code |-> draws[attempts + 1], lookups |-> attempts + 1]
         ELSE AllocRun(db, draws, attempts + 1)
    ELSE [ok |-> FALSE, code |-> 0, lookups |-> attempts]

\* createRoom without the insert of the host's row
createRoomNoHost(db, alloc, category, hostId, maxParticipants, t) ==
    IF ~alloc.ok
    THEN Thrown(db, "Failed to generate unique room code")
    ELSE LET room == [code |-> alloc.code,
                      category |-> category,
                      hostId |-> hostId,
                      status |-> "active",
                      expiresAt |-> t + DayMs,
                      maxParticipants |-> IF maxParticipants = Absent
                                          THEN DefaultMaxParticipants
                                          ELSE maxParticipants[1]]
             roomId == Len(db.rooms) + 1
         IN  Returned([db EXCEPT !.rooms = Append(@, room)],
                      [roomId |-> roomId, code |-> alloc.code])

createRoom(db, alloc, category, hostId, maxParticipants, t) ==
    IF ~alloc.ok
    THEN Thrown(db, "Failed to generate unique room code")
    ELSE LET room == [code |-> alloc.code,
                      category |-> category,
                      hostId |-> hostId,
                      status |-> "active",
                      expiresAt |-> t + DayMs,
                      maxParticipants |-> IF maxParticipants = Absent
                                          THEN DefaultMaxParticipants
                                          ELSE maxParticipants[1]]
             roomId == Len(db.rooms) + 1
             host == [roomId |-> roomId, participantId |-> hostId,
                      votingCompletedAt |-> Undefined]
         IN  Returned([db EXCEPT !.rooms = Append(@, room),
                                 !.roomParticipants[roomId] = Append(@, host)],
                      [roomId |-> roomId, code |-> alloc.code])

(* ------------------------- getRoom / getRoomByCode --------------------- *)
\* the read without the expiry projection
ProjectedStored(room, t) == room

\* the response of both reads: the stored row, its status overridden
Projected(room, t) ==
    IF room.expiresAt < t /\ room.status = "active"
    THEN [room EXCEPT !.status = "expired"]
    ELSE room

Null == [null |-> TRUE]

getRoomByCode(db, code, t) ==
    LET id == RoomByCode(db, code)
    IN  IF id = 0 THEN Null ELSE Projected(db.rooms[id], t)

getRoom(db, roomId, t) ==
    IF roomId \notin DOMAIN db.rooms THEN Null ELSE Projected(db.rooms[roomId], t)

(* ------------------------- joinRoom / joinRoomByCode ------------------- *)
\* joinRoom with the capacity test off by one
joinRoomOffByOne(db, roomId, participantId, t) ==
    IF roomId \notin DOMAIN db.rooms
    THEN Thrown(db, "Room not found")
    ELSE LET room == db.rooms[roomId]
        IN  IF room.status # "active"
            THEN Thrown(db, "Room is " \o room.status)
            ELSE IF room.expiresAt < t
            THEN Thrown([db EXCEPT !.rooms[roomId].status = "expired"], "Room has expired")
            ELSE IF ParticipantIdx(db, roomId, participantId) # 0
            THEN Thrown(db, "Already joined this room")
            ELSE IF Len(ByRoom(db.roomParticipants, roomId)) > room.maxParticipants
            THEN Thrown(db, "Room is full")
            ELSE Returned([db EXCEPT !.roomParticipants[roomId] =
                     Append(@, [roomId |-> roomId, participantId |-> participantId,
                                votingCompletedAt |-> Undefined])],
                     [success |-> TRUE])

\* joinRoom without the status and expiry tests
joinRoomNoStatusCheck(db, roomId, participantId, t) ==
    IF roomId \notin DOMAIN db.rooms
    THEN Thrown(db, "Room not found")
    ELSE LET room == db.rooms[roomId]
        IN  IF ParticipantIdx(db, roomId, participantId) # 0
            THEN Thrown(db, "Already joined this room")
            ELSE IF Len(ByRoom(db.roomParticipants, roomId)) >= room.maxParticipants
            THEN Thrown(db, "Room is full")
            ELSE Returned([db EXCEPT !.roomParticipants[roomId] =
                     Append(@, [roomId |-> roomId, participantId |-> participantId,
                                votingCompletedAt |-> Undefined])],
                     [success |-> TRUE])

\* joinRoom without the lookup of the caller's membership row
joinRoomNoDuplicateCheck(db, roomId, participantId, t) ==
    IF roomId \notin DOMAIN db.rooms
    THEN Thrown(db, "Room not found")
    ELSE LET room == db.rooms[roomId]
        IN  IF room.status # "active"
            THEN Thrown(db, "Room is " \o room.status)
            ELSE IF room.expiresAt < t
            THEN Thrown([db EXCEPT !.rooms[roomId].status = "expired"], "Room has expired")
            ELSE IF Len(ByRoom(db.roomParticipants, roomId)) >= room.maxParticipants
            THEN Thrown(db, "Room is full")
            ELSE Returned([db EXCEPT !.roomParticipants[roomId] =
                     Append(@, [roomId |-> roomId, participantId |-> participantId,
                                votingCompletedAt |-> Undefined])],
                     [success |-> TRUE])

joinRoom(db, roomId, participantId, t) ==
    IF roomId \notin DOMAIN db.rooms
    THEN Thrown(db, "Room not found")
    ELSE LET room == db.rooms[roomId]
        IN  IF room.status # "active"
            THEN Thrown(db, "Room is " \o room.status)
            ELSE IF room.expiresAt < t
            THEN Thrown([db EXCEPT !.rooms[roomId].status = "expired"], "Room has expired")
            ELSE IF ParticipantIdx(db, roomId, participantId) # 0
            THEN Thrown(db, "Already joined this room")
            ELSE IF Len(ByRoom(db.roomParticipants, roomId)) >= room.maxParticipants
            THEN Thrown(db, "Room is full")
            ELSE Returned([db EXCEPT !.roomParticipants[roomId] =
                     Append(@, [roomId |-> roomId, participantId |-> participantId,
                                votingCompletedAt |-> Undefined])],
                     [success |-> TRUE])

\* joinRoomByCode with the capacity test before the membership lookup
joinRoomByCodeCapacityFirst(db, roomCode, participantId, t) ==
    LET id == RoomByCode(db, roomCode)
    IN  IF id = 0
        THEN Thrown(db, "Room not found")
        ELSE LET room == db.rooms[id]
            IN  IF room.status # "active"
                THEN Thrown(db, "Room is " \o room.status)
                ELSE IF room.expiresAt < t
                THEN Thrown([db EXCEPT !.rooms[id].status = "expired"], "Room has expired")
                ELSE IF Len(ByRoom(db.roomParticipants, id)) >= room.maxParticipants
                THEN Thrown(db, "Room is full")
                ELSE IF ParticipantIdx(db, id, participantId) # 0
                THEN Thrown(db, "Already joined this room")
                ELSE Returned([db EXCEPT !.roomParticipants[id] =
                         Append(@, [roomId |-> id, participantId |-> participantId,
                                    votingCompletedAt |-> Undefined])],
                         [roomId |-> id, code |-> room.code])

joinRoomByCode(db, roomCode, participantId, t) ==
    LET id == RoomByCode(db, roomCode)
    IN  IF id = 0
        THEN Thrown(db, "Room not found")
        ELSE LET room == db.rooms[id]
            IN  IF room.status # "active"
                THEN Thrown(db, "Room is " \o room.status)
                ELSE IF room.expiresAt < t
                THEN Thrown([db EXCEPT !.rooms[id].status = "expired"], "Room has expired")
                ELSE IF ParticipantIdx(db, id, participantId) # 0
                THEN Thrown(db, "Already joined this room")
                ELSE IF Len(ByRoom(db.roomParticipants, id)) >= room.maxParticipants
                THEN Thrown(db, "Room is full")
                ELSE Returned([db EXCEPT !.roomParticipants[id] =
                         Append(@, [roomId |-> id, participantId |-> participantId,
                                    votingCompletedAt |-> Undefined])],
                         [roomId |-> id, code |-> room.code])

(* ------------------------------ leaveRoom ------------------------------ *)
\* leaveRoom without the patch of an emptied room
leaveRoomKeepsStatus(db, roomId, participantId) ==
    LET i == ParticipantIdx(db, roomId, participantId)
    IN  IF i = 0
        THEN Thrown(db, "Not a participant in this room")
        ELSE Returned([db EXCEPT !.roomParticipants[roomId] = RemoveAt(@, i)],
                      [success |-> TRUE])

\* leaveRoom that completes the room whoever is left
leaveRoomCompletesAlways(db, roomId, participantId) ==
    LET i == ParticipantIdx(db, roomId, participantId)
    IN  IF i = 0
        THEN Thrown(db, "Not a participant in this room")
        ELSE Returned([db EXCEPT !.roomParticipants[roomId] = RemoveAt(@, i),
                                 !.rooms[roomId].status = "completed"],
                      [success |-> TRUE])

\* leaveRoom that clears the completion of the members who stay
leaveRoomClearsCompletion(db, roomId, participantId) ==
    LET i == ParticipantIdx(db, roomId, participantId)
    IN  IF i = 0
        THEN Thrown(db, "Not a participant in this room")
        ELSE LET rest == RemoveAt(db.roomParticipants[roomId], i)
                 db1 == [db EXCEPT !.roomParticipants[roomId] =
                            [j \in DOMAIN rest |->
                                [rest[j] EXCEPT !.votingCompletedAt = Undefined]]]
             IN  IF Len(rest) = 0
                 THEN Returned([db1 EXCEPT !.rooms[roomId].status = "completed"],
                               [success |-> TRUE])
                 ELSE Returned(db1, [success |-> TRUE])

leaveRoom(db, roomId, participantId) ==
    LET i == ParticipantIdx(db, roomId, participantId)
    IN  IF i = 0
        THEN Thrown(db, "Not a participant in this room")
        ELSE LET db1 == [db EXCEPT !.roomParticipants[roomId] = RemoveAt(@, i)]
             IN  IF Len(ByRoom(db1.roomParticipants, roomId)) = 0
                 THEN Returned([db1 EXCEPT !.rooms[roomId].status = "completed"],
                               [success |-> TRUE])
                 ELSE Returned(db1, [success |-> TRUE])

(* ------------------------------ getParticipants ------------------------ *)
getParticipants(db, roomId) == ByRoom(db.roomParticipants, roomId)

(* ------------------------------ addMovie ------------------------------- *)
MovieByTmdbId(db, tmdbId) ==
    FirstIdx(Matching(db.movies, LAMBDA m : m.tmdbId = tmdbId))

\* addMovie without the lookup of the stored movie
addMovieAlwaysInsert(db, tmdbId, title) ==
    IF title = NoTitle
    THEN Thrown(db, "ArgumentValidationError")
    ELSE Returned([db EXCEPT !.movies = Append(@, [tmdbId |-> tmdbId, title |-> title])],
                  Len(db.movies) + 1)

\* the argument validator rejects a call without a title before the handler
addMovie(db, tmdbId, title) ==
    IF title = NoTitle
    THEN Thrown(db, "ArgumentValidationError")
    ELSE IF MovieByTmdbId(db, tmdbId) # 0
    THEN Returned(db, MovieByTmdbId(db, tmdbId))
    ELSE Returned([db EXCEPT !.movies = Append(@, [tmdbId |-> tmdbId, title |-> title])],
                  Len(db.movies) + 1)

(* --------------------------- linkMoviesToRoom -------------------------- *)
\* linkMoviesToRoom with positions counted from 1
linkMoviesToRoomFromOne(db, roomId, movieIds) ==
    Returned([db EXCEPT !.roomMovies[roomId] =
                 @ \o [i \in DOMAIN movieIds |->
                          [roomId |-> roomId, movieId |-> movieIds[i], position |-> i]]],
             [success |-> TRUE, count |-> Len(movieIds)])

\* linkMoviesToRoom that inserts the first link only
linkMoviesToRoomFirstOnly(db, roomId, movieIds) ==
    Returned([db EXCEPT !.roomMovies[roomId] =
                 @ \o [i \in {j \in DOMAIN movieIds : j = 1} |->
                          [roomId |-> roomId, movieId |-> movieIds[i], position |-> i - 1]]],
             [success |-> TRUE, count |-> Len(movieIds)])

\* linkMoviesToRoom that leaves a room with links as it is
linkMoviesToRoomOnce(db, roomId, movieIds) ==
    IF db.roomMovies[roomId] # <<>>
    THEN Returned(db, [success |-> TRUE, count |-> 0])
    ELSE Returned([db EXCEPT !.roomMovies[roomId] =
                      @ \o [i \in DOMAIN movieIds |->
                               [roomId |-> roomId, movieId |-> movieIds[i],
                                position |-> i - 1]]],
                  [success |-> TRUE, count |-> Len(movieIds)])

\* position is the index in args.movieIds, counted from 0
linkMoviesToRoom(db, roomId, movieIds) ==
    Returned([db EXCEPT !.roomMovies[roomId] =
                 @ \o [i \in DOMAIN movieIds |->
                          [roomId |-> roomId, movieId |-> movieIds[i], position |-> i - 1]]],
             [success |-> TRUE, count |-> Len(movieIds)])

(* ------------------------------ getRoomMovies -------------------------- *)
\* the links of the room in index order, each replaced by its movie;
\* movies are never deleted, so that ctx.db.get finds every one
getRoomMovies(db, roomId) ==
    LET links == ByRoom(db.roomMovies, roomId)
    IN  [i \in DOMAIN links |->
            [id |-> links[i].movieId,
             tmdbId |-> db.movies[links[i].movieId].tmdbId,
             title |-> db.movies[links[i].movieId].title]]

(* ------------------------------ submitVote ----------------------------- *)
VoteIdx(db, roomId, movieId, participantId) ==
    FirstIdx(Matching(ByRoom(db.votes, roomId),
        LAMBDA v : v.movieId = movieId /\ v.participantId = participantId))

\* submitVote without the lookup of the existing vote
submitVoteAlwaysInsert(db, roomId, movieId, participantId, voteType, t) ==
    IF roomId \notin DOMAIN db.rooms
    THEN Thrown(db, "Room not found")
    ELSE LET room == db.rooms[roomId]
         IN  IF room.status # "active"
             THEN Thrown(db, "Room is " \o room.status)
             ELSE IF room.expiresAt < t
             THEN Thrown([db EXCEPT !.rooms[roomId].status = "expired"], "Room has expired")
             ELSE IF ParticipantIdx(db, roomId, participantId) = 0
             THEN Thrown(db, "Not a participant in this room")
             ELSE IF movieId \notin DOMAIN db.movies
             THEN Thrown(db, "Movie not found")
             ELSE Returned([db EXCEPT !.votes[roomId] =
                               Append(@, [roomId |-> roomId, movieId |-> movieId,
                                          participantId |-> participantId,
                                          voteType |-> voteType])],
                           [voteId |-> Len(db.votes[roomId]) + 1, updated |-> FALSE])

\* submitVote without the lookup of the caller's membership row
submitVoteNoMembershipTest(db, roomId, movieId, participantId, voteType, t) ==
    IF roomId \notin DOMAIN db.rooms
    THEN Thrown(db, "Room not found")
    ELSE LET room == db.rooms[roomId]
         IN  IF room.status # "active"
             THEN Thrown(db, "Room is " \o room.status)
             ELSE IF room.expiresAt < t
             THEN Thrown([db EXCEPT !.rooms[roomId].status = "expired"], "Room has expired")
             ELSE IF movieId \notin DOMAIN db.movies
             THEN Thrown(db, "Movie not found")
             ELSE LET i == VoteIdx(db, roomId, movieId, participantId)
                  IN  IF i # 0
                      THEN Returned([db EXCEPT !.votes[roomId][i].voteType = voteType],
                                    [voteId |-> i, updated |-> TRUE])
                      ELSE Returned([db EXCEPT !.votes[roomId] =
                                        Append(@, [roomId |-> roomId, movieId |-> movieId,
                                                   participantId |-> participantId,
                                                   voteType |-> voteType])],
                                    [voteId |-> Len(db.votes[roomId]) + 1, updated |-> FALSE])

submitVote(db, roomId, movieId, participantId, voteType, t) ==
    IF roomId \notin DOMAIN db.rooms
    THEN Thrown(db, "Room not found")
    ELSE LET room == db.rooms[roomId]
         IN  IF room.status # "active"
             THEN Thrown(db, "Room is " \o room.status)
             ELSE IF room.expiresAt < t
             THEN Thrown([db EXCEPT !.rooms[roomId].status = "expired"], "Room has expired")
             ELSE IF ParticipantIdx(db, roomId, participantId) = 0
             THEN Thrown(db, "Not a participant in this room")
             ELSE IF movieId \notin DOMAIN db.movies
             THEN Thrown(db, "Movie not found")
             ELSE LET i == VoteIdx(db, roomId, movieId, participantId)
                  IN  IF i # 0
                      THEN Returned([db EXCEPT !.votes[roomId][i].voteType = voteType],
                                    [voteId |-> i, updated |-> TRUE])
                      ELSE Returned([db EXCEPT !.votes[roomId] =
                                        Append(@, [roomId |-> roomId, movieId |-> movieId,
                                                   participantId |-> participantId,
                                                   voteType |-> voteType])],
                                    [voteId |-> Len(db.votes[roomId]) + 1, updated |-> FALSE])

(* ------------------------- completion tracking ------------------------- *)
\* markVotingComplete of convex/votes, the one the client calls
markVotingComplete(db, roomId, participantName, t) ==
    LET i == ParticipantIdx(db, roomId, participantName)
    IN  IF i = 0
        THEN Thrown(db, "Participant not found in room")
        ELSE Returned([db EXCEPT !.roomParticipants[roomId][i].votingCompletedAt = t],
                      [success |-> TRUE])

\* markVotingComplete of convex/rooms without the test for a completed caller
roomsMarkVotingCompleteOverwrite(db, roomId, participantId, t) ==
    LET i == ParticipantIdx(db, roomId, participantId)
    IN  IF i = 0
        THEN Thrown(db, "Not a participant in this room")
        ELSE Returned([db EXCEPT !.roomParticipants[roomId][i].votingCompletedAt = t],
                      [success |-> TRUE])

\* markVotingComplete of convex/rooms
roomsMarkVotingComplete(db, roomId, participantId, t) ==
    LET i == ParticipantIdx(db, roomId, participantId)
    IN  IF i = 0
        THEN Thrown(db, "Not a participant in this room")
        ELSE IF db.roomParticipants[roomId][i].votingCompletedAt \notin {Undefined, 0}
        THEN Thrown(db, "Voting already completed")
        ELSE Returned([db EXCEPT !.roomParticipants[roomId][i].votingCompletedAt = t],
                      [success |-> TRUE])

\* resetVotingCompletion that writes nothing
resetVotingCompletionNoWrite(db, roomId, participantId) ==
    LET i == ParticipantIdx(db, roomId, participantId)
    IN  IF i = 0
        THEN Thrown(db, "Participant not found in room")
        ELSE Returned(db, [success |-> TRUE])

resetVotingCompletion(db, roomId, participantId) ==
    LET i == ParticipantIdx(db, roomId, participantId)
    IN  IF i = 0
        THEN Thrown(db, "Participant not found in room")
        ELSE Returned([db EXCEPT !.roomParticipants[roomId][i].votingCompletedAt = Undefined],
                      [success |-> TRUE])

(* ------------------------ getResults / getDetailedResults -------------- *)
\* the percentage cut off instead of rounded
RoundPercentFloor(num, den) == (100 * num) \div den

\* Math.round((num / den) * 100) for num >= 0, den > 0
RoundPercent(num, den) == (200 * num + den) \div (2 * den)

\* the keys of the object `votes.reduce` builds, in insertion order
RECURSIVE MovieOrder(_)
MovieOrder(vs) ==
    IF vs = <<>> THEN <<>>
    ELSE LET before == MovieOrder(SubSeq(vs, 1, Len(vs) - 1))
             m == vs[Len(vs)].movieId
         IN  IF \E i \in DOMAIN before : before[i] = m THEN before ELSE Append(before, m)

CountVotes(vs, movieId, isLike) ==
    Len(SelectSeq(vs, LAMBDA v : v.movieId = movieId /\ ((v.voteType = "like") = isLike)))

Voters(vs, movieId) ==
    {vs[i].participantId : i \in {j \in DOMAIN vs : vs[j].movieId = movieId}}

\* Array.prototype.sort is stable; (a, b) => b.matchScore - a.matchScore
RECURSIVE InsertByScore(_, _)
InsertByScore(sorted, x) ==
    IF sorted = <<>> THEN <<x>>
    ELSE IF Head(sorted).matchScore < x.matchScore THEN <<x>> \o sorted
    ELSE <<Head(sorted)>> \o InsertByScore(Tail(sorted), x)

RECURSIVE SortByScore(_)
SortByScore(s) ==
    IF s = <<>> THEN <<>>
    ELSE InsertByScore(SortByScore(SubSeq(s, 1, Len(s) - 1)), s[Len(s)])

\* getResults counting every vote of a movie as a like
getResultsAllLikes(db, roomId) ==
    LET vs == ByRoom(db.votes, roomId)
        totalParticipants == Len(ByRoom(db.roomParticipants, roomId))
        order == MovieOrder(vs)
        Result(m) ==
            LET likes == CountVotes(vs, m, TRUE) + CountVotes(vs, m, FALSE)
                dislikes == 0
                voters == Voters(vs, m)
            IN  [movieId |-> m, likes |-> likes, dislikes |-> dislikes,
                 totalVotes |-> Cardinality(voters),
                 matchScore |-> IF totalParticipants > 0
                                THEN RoundPercent(likes, totalParticipants) ELSE 0,
                 isMatch |-> /\ Cardinality(voters) = totalParticipants
                             /\ likes = totalParticipants
                             /\ dislikes = 0]
    IN  SortByScore([i \in DOMAIN order |-> Result(order[i])])

getResults(db, roomId) ==
    LET vs == ByRoom(db.votes, roomId)
        totalParticipants == Len(ByRoom(db.roomParticipants, roomId))
        order == MovieOrder(vs)
        Result(m) ==
            LET likes == CountVotes(vs, m, TRUE)
                dislikes == CountVotes(vs, m, FALSE)
                voters == Voters(vs, m)
            IN  [movieId |-> m, likes |-> likes, dislikes |-> dislikes,
                 totalVotes |-> Cardinality(voters),
                 matchScore |-> IF totalParticipants > 0
                                THEN RoundPercent(likes, totalParticipants) ELSE 0,
                 isMatch |-> /\ Cardinality(voters) = totalParticipants
                             /\ likes = totalParticipants
                             /\ dislikes = 0]
    IN  SortByScore([i \in DOMAIN order |-> Result(order[i])])

\* b.matchPercentage - a.matchPercentage || b.positiveVotes - a.positiveVotes
DetailedBefore(a, b) ==
    \/ a.matchPercentage > b.matchPercentage
    \/ a.matchPercentage = b.matchPercentage /\ a.positiveVotes > b.positiveVotes

RECURSIVE InsertDetailed(_, _)
InsertDetailed(sorted, x) ==
    IF sorted = <<>> THEN <<x>>
    ELSE IF DetailedBefore(x, Head(sorted)) THEN <<x>> \o sorted
    ELSE <<Head(sorted)>> \o InsertDetailed(Tail(sorted), x)

RECURSIVE SortDetailed(_)
SortDetailed(s) ==
    IF s = <<>> THEN <<>>
    ELSE InsertDetailed(SortDetailed(SubSeq(s, 1, Len(s) - 1)), s[Len(s)])

\* getDetailedResults without the filter on likes
getDetailedResultsNoFilter(db, roomId) ==
    LET vs == ByRoom(db.votes, roomId)
        participants == ByRoom(db.roomParticipants, roomId)
        order == MovieOrder(vs)
        Result(m) ==
            LET details == SelectSeq(vs, LAMBDA v : v.movieId = m)
                votingDetails == [i \in DOMAIN details |->
                                     [participantId |-> details[i].participantId,
                                      vote |-> details[i].voteType = "like"]]
                totalVotes == Len(votingDetails)
                likes == CountVotes(vs, m, TRUE)
            IN  [movieId |-> m, totalVotes |-> totalVotes,
                 positiveVotes |-> likes,
                 negativeVotes |-> CountVotes(vs, m, FALSE),
                 matchPercentage |-> IF totalVotes > 0
                                     THEN RoundPercent(likes, totalVotes) ELSE 0,
                 votingDetails |-> votingDetails]
    IN  [results |-> SortDetailed([i \in DOMAIN order |-> Result(order[i])]),
         participants |-> [i \in DOMAIN participants |->
                              [participantId |-> participants[i].participantId,
                               votingCompletedAt |-> participants[i].votingCompletedAt]]]

getDetailedResults(db, roomId) ==
    LET vs == ByRoom(db.votes, roomId)
        participants == ByRoom(db.roomParticipants, roomId)
        order == SelectSeq(MovieOrder(vs), LAMBDA m : CountVotes(vs, m, TRUE) > 0)
        Result(m) ==
            LET details == SelectSeq(vs, LAMBDA v : v.movieId = m)
                votingDetails == [i \in DOMAIN details |->
                                     [participantId |-> details[i].participantId,
                                      vote |-> details[i].voteType = "like"]]
                totalVotes == Len(votingDetails)
                likes == CountVotes(vs, m, TRUE)
            IN  [movieId |-> m, totalVotes |-> totalVotes,
                 positiveVotes |-> likes,
                 negativeVotes |-> CountVotes(vs, m, FALSE),
                 matchPercentage |-> IF totalVotes > 0
                                     THEN RoundPercent(likes, totalVotes) ELSE 0,
                 votingDetails |-> votingDetails]
    IN  [results |-> SortDetailed([i \in DOMAIN order |-> Result(order[i])]),
         participants |-> [i \in DOMAIN participants |->
                              [participantId |-> participants[i].participantId,
                               votingCompletedAt |-> participants[i].votingCompletedAt]]]

(* ------------------------------ getVotingProgress ---------------------- *)
\* getVotingProgress without the test for an empty room in isAllComplete
getVotingProgressNoEmptyTest(db, roomId) ==
    LET participants == ByRoom(db.roomParticipants, roomId)
        totalParticipants == Len(participants)
        completedParticipants ==
            SelectSeq(participants, LAMBDA p : p.votingCompletedAt # Undefined)
        pendingParticipants ==
            SelectSeq(participants, LAMBDA p : p.votingCompletedAt = Undefined)
        Ids(ps) == [i \in DOMAIN ps |-> ps[i].participantId]
    IN  [totalParticipants |-> totalParticipants,
         completedParticipants |-> Len(completedParticipants),
         pendingParticipants |-> Len(pendingParticipants),
         completionPercentage |->
             IF totalParticipants > 0
             THEN RoundPercent(Len(completedParticipants), totalParticipants) ELSE 0,
         isAllComplete |-> Len(completedParticipants) = totalParticipants,
         participantIds |-> Ids(participants),
         completedParticipantIds |-> Ids(completedParticipants),
         pendingParticipantIds |-> Ids(pendingParticipants)]

getVotingProgress(db, roomId) ==
    LET participants == ByRoom(db.roomParticipants, roomId)
        totalParticipants == Len(participants)
        completedParticipants ==
            SelectSeq(participants, LAMBDA p : p.votingCompletedAt # Undefined)
        pendingParticipants ==
            SelectSeq(participants, LAMBDA p : p.votingCompletedAt = Undefined)
        Ids(ps) == [i \in DOMAIN ps |-> ps[i].participantId]
    IN  [totalParticipants |-> totalParticipants,
         completedParticipants |-> Len(completedParticipants),
         pendingParticipants |-> Len(pendingParticipants),
         completionPercentage |->
             IF totalParticipants > 0
             THEN RoundPercent(Len(completedParticipants), totalParticipants) ELSE 0,
         isAllComplete |-> /\ totalParticipants > 0
                           /\ Len(completedParticipants) = totalParticipants,
         participantIds |-> Ids(participants),
         completedParticipantIds |-> Ids(completedParticipants),
         pendingParticipantIds |-> Ids(pendingParticipants)]

(* ------------------------------ actions -------------------------------- *)
Init ==
    /\ rooms = <<>>
    /\ roomParticipants = [r \in RoomIds |-> <<>>]
    /\ movies = <<>>
    /\ votes = [r \in RoomIds |-> <<>>]
    /\ roomMovies = [r \in RoomIds |-> <<>>]
    /\ populating = <<>>
    /\ clients = [p \in Participants |-> AtHome]
    /\ now = StartTime
    /\ lastRead = NoRead
    /\ latestVote = <<>>

Install(db) ==
    /\ rooms' = db.rooms
    /\ roomParticipants' = db.roomParticipants
    /\ movies' = db.movies
    /\ votes' = db.votes
    /\ roomMovies' = db.roomMovies

\* the clock advances between calls
Tick ==
    /\ now < StartTime + MaxTicks * ClockStep
    /\ now' = now + ClockStep
    /\ lastRead' = NoRead
    /\ UNCHANGED <<store, latestVote, populating, clients>>

DoCreateRoom ==
    /\ \E category \in Categories, hostId \in Hosts,
          maxParticipants \in MaxParticipantsArgs, alloc \in AllocOutcomes(DB, 0) :
          Install(Commit(DB, createRoom(DB, alloc, category, hostId, maxParticipants, now)))
    /\ lastRead' = NoRead
    /\ UNCHANGED <<now, latestVote, populating, clients>>

CreateRoom ==
    /\ Len(rooms) < MaxRooms
    /\ DoCreateRoom

CreateFirstRoom ==
    /\ rooms = <<>>
    /\ DoCreateRoom

JoinRoom ==
    /\ \E roomId \in RoomIds, participantId \in Participants :
          Install(Commit(DB, joinRoom(DB, roomId, participantId, now)))
    /\ lastRead' = NoRead
    /\ UNCHANGED <<now, latestVote, populating, clients>>

JoinRoomByCode ==
    /\ \E roomCode \in Codes, participantId \in Participants :
          Install(Commit(DB, joinRoomByCode(DB, roomCode, participantId, now)))
    /\ lastRead' = NoRead
    /\ UNCHANGED <<now, latestVote, populating, clients>>

LeaveRoom ==
    /\ \E roomId \in RoomIds, participantId \in Participants :
          Install(Commit(DB, leaveRoom(DB, roomId, participantId)))
    /\ lastRead' = NoRead
    /\ UNCHANGED <<now, latestVote, populating, clients>>

AddMovie ==
    /\ \E tmdbId \in TmdbIds, title \in Titles :
          Install(Commit(DB, addMovie(DB, tmdbId, title)))
    /\ lastRead' = NoRead
    /\ UNCHANGED <<now, latestVote, populating, clients>>

SameKey(v, roomId, movieId, participantId) ==
    v.roomId = roomId /\ v.movieId = movieId /\ v.participantId = participantId

SubmitVoteUpTo(maxVotes) ==
    /\ \E roomId \in RoomIds, movieId \in MovieIds, participantId \in Participants,
          voteType \in VoteTypes :
          LET out == submitVote(DB, roomId, movieId, participantId, voteType, now)
          IN  /\ \A r \in RoomIds : Len(out.db.votes[r]) <= maxVotes
              /\ Install(Commit(DB, out))
              /\ latestVote' =
                    IF out.threw THEN latestVote
                    ELSE Append(SelectSeq(latestVote,
                                    LAMBDA v : ~SameKey(v, roomId, movieId, participantId)),
                                [roomId |-> roomId, movieId |-> movieId,
                                 participantId |-> participantId, voteType |-> voteType])
    /\ lastRead' = NoRead
    /\ UNCHANGED <<now, populating, clients>>

SubmitVote == SubmitVoteUpTo(MaxVotes)

SubmitFirstVote == SubmitVoteUpTo(MaxStatusVotes)

MarkVotingComplete ==
    /\ \E roomId \in RoomIds, participantName \in Participants :
          Install(Commit(DB, markVotingComplete(DB, roomId, participantName, now)))
    /\ lastRead' = NoRead
    /\ UNCHANGED <<now, latestVote, populating, clients>>

RoomsMarkVotingComplete ==
    /\ \E roomId \in RoomIds, participantId \in Participants :
          Install(Commit(DB, roomsMarkVotingComplete(DB, roomId, participantId, now)))
    /\ lastRead' = NoRead
    /\ UNCHANGED <<now, latestVote, populating, clients>>

ResetVotingCompletion ==
    /\ \E roomId \in RoomIds, participantId \in Participants :
          Install(Commit(DB, resetVotingCompletion(DB, roomId, participantId)))
    /\ lastRead' = NoRead
    /\ UNCHANGED <<now, latestVote, populating, clients>>

GetRoom ==
    /\ \E roomId \in RoomIds :
          lastRead' = [op |-> "getRoom", arg |-> roomId,
                       val |-> getRoom(DB, roomId, now)]
    /\ UNCHANGED <<store, now, latestVote, populating, clients>>

GetRoomByCode ==
    /\ \E code \in Codes :
          lastRead' = [op |-> "getRoomByCode", arg |-> code,
                       val |-> getRoomByCode(DB, code, now)]
    /\ UNCHANGED <<store, now, latestVote, populating, clients>>

(* ------------------------ populateRoomWithMovies ----------------------- *)
\* populateRoomWithMovies is a Convex action: not a transaction, but a run of
\* calls -- the fetch, one addMovie mutation per candidate, one
\* linkMoviesToRoom mutation -- between which other calls take their turn.
\* A call is kept with its loop variable i and its movieIds, and stays, with
\* what it returned, after it has ended.
\* what ctx.runAction(api.tmdb.discoverMovies) gives: a page, or a throw
Fetches ==
    {[ok |-> TRUE, results |-> rs] : rs \in FetchResults}
    \cup {[ok |-> FALSE, results |-> <<>>]}

Min(a, b) == IF a < b THEN a ELSE b

\* up to the loop: the category lookup, the fetch, slice(0, 25)
PopulateStart ==
    /\ Len(populating) < MaxCalls
    /\ \E roomId \in DOMAIN rooms, category \in Categories \cup {"unknown"},
          tmdbResponse \in Fetches :
          populating' = Append(populating,
              IF category \notin GenreCategories \/ ~tmdbResponse.ok
              THEN [roomId |-> roomId, pc |-> "failed", moviesToAdd |-> <<>>,
                    i |-> 0, movieIds |-> <<>>]
              ELSE [roomId |-> roomId, pc |-> "adding",
                    moviesToAdd |-> SubSeq(tmdbResponse.results, 1,
                                           Min(SlateSize, Len(tmdbResponse.results))),
                    i |-> 0, movieIds |-> <<>>])
    /\ UNCHANGED <<store, now, lastRead, latestVote, clients>>

\* one iteration of the loop: the addMovie mutation of candidate i, whose
\* failure is caught and skipped
PopulateAddMovie ==
    /\ \E k \in DOMAIN populating :
          LET call == populating[k]
          IN  /\ call.pc = "adding"
              /\ call.i < Len(call.moviesToAdd)
              /\ LET movie == call.moviesToAdd[call.i + 1]
                     out == addMovie(DB, movie.id, movie.title)
                 IN  /\ Install(Commit(DB, out))
                     /\ populating' =
                           [populating EXCEPT ![k].i = @ + 1,
                                              ![k].movieIds = IF out.threw THEN @
                                                              ELSE Append(@, out.val)]
    /\ lastRead' = NoRead
    /\ UNCHANGED <<now, latestVote, clients>>

\* after the loop: the linkMoviesToRoom mutation, if any movie was added,
\* and the return
PopulateLink ==
    /\ \E k \in DOMAIN populating :
          LET call == populating[k]
              out == linkMoviesToRoom(DB, call.roomId, call.movieIds)
          IN  /\ call.pc = "adding"
              /\ call.i = Len(call.moviesToAdd)
              /\ IF call.movieIds # <<>>
                 THEN /\ Install(Commit(DB, out))
                      /\ populating' = [populating EXCEPT ![k].pc =
                                            IF out.threw THEN "failed" ELSE "done"]
                 ELSE /\ UNCHANGED store
                      /\ populating' = [populating EXCEPT ![k].pc = "done"]
    /\ lastRead' = NoRead
    /\ UNCHANGED <<now, latestVote, clients>>

(* ------------------------------ the client ----------------------------- *)
\* linkMoviesToRoom called for a room without a slate, with stored movies
LinkMoviesToRoom ==
    /\ \E roomId \in DOMAIN rooms, n \in 1 .. MaxMovies :
          \E movieIds \in [1 .. n -> DOMAIN movies] :
              /\ roomMovies[roomId] = <<>>
              /\ Install(Commit(DB, linkMoviesToRoom(DB, roomId, movieIds)))
    /\ lastRead' = NoRead
    /\ UNCHANGED <<now, latestVote, populating, clients>>

\* a member opens RoomScreen: currentIndex 0, hasMarkedComplete false
ClientOpenRoom ==
    /\ \E p \in Participants, roomId \in DOMAIN rooms :
          /\ clients[p].screen = "home"
          /\ p \in {roomParticipants[roomId][i].participantId :
                        i \in DOMAIN roomParticipants[roomId]}
          /\ clients' = [clients EXCEPT ![p] =
                            [screen |-> "room", roomId |-> roomId,
                             currentIndex |-> 0, hasMarkedComplete |-> FALSE]]
    /\ UNCHANGED <<store, now, lastRead, latestVote, populating>>

\* handleSwipeLeft / handleSwipeRight on the current movie: submitVote of
\* useVoting, which catches the error of the mutation, then the next index
ClientSwipe ==
    /\ \E p \in Participants, voteType \in VoteTypes :
          LET client == clients[p]
              shown == getRoomMovies(DB, client.roomId)
          IN  /\ client.screen = "room"
              /\ client.currentIndex < Len(shown)
              /\ LET movie == shown[client.currentIndex + 1]
                     out == submitVote(DB, client.roomId, movie.id, p, voteType, now)
                 IN  /\ Install(Commit(DB, out))
                     /\ latestVote' =
                           IF out.threw THEN latestVote
                           ELSE Append(SelectSeq(latestVote,
                                           LAMBDA v : ~SameKey(v, client.roomId, movie.id, p)),
                                       [roomId |-> client.roomId, movieId |-> movie.id,
                                        participantId |-> p, voteType |-> voteType])
              /\ clients' = [clients EXCEPT ![p].currentIndex =
                                IF client.currentIndex < Len(shown) - 1
                                THEN client.currentIndex + 1 ELSE Len(shown)]
    /\ lastRead' = NoRead
    /\ UNCHANGED <<now, populating>>

\* the effect on hasFinishedVoting: markVotingComplete of convex/votes, its
\* error caught
ClientMarkComplete ==
    /\ \E p \in Participants :
          LET client == clients[p]
              shown == getRoomMovies(DB, client.roomId)
              out == markVotingComplete(DB, client.roomId, p, now)
          IN  /\ client.screen = "room"
              /\ client.currentIndex >= Len(shown) /\ Len(shown) > 0
              /\ ~client.hasMarkedComplete
              /\ Install(Commit(DB, out))
              /\ clients' = [clients EXCEPT ![p].hasMarkedComplete = ~out.threw]
    /\ lastRead' = NoRead
    /\ UNCHANGED <<now, latestVote, populating>>

\* one room, every call on it
Next ==
    \/ Tick
    \/ CreateFirstRoom
    \/ JoinRoom
    \/ JoinRoomByCode
    \/ LeaveRoom
    \/ AddMovie
    \/ SubmitVote

Spec == Init /\ [][Next]_vars

\* one room and at most MaxStatusVotes votes, the calls that follow a room to
\* its end together with the completion calls
NextStatus ==
    \/ Tick
    \/ CreateFirstRoom
    \/ JoinRoom
    \/ JoinRoomByCode
    \/ LeaveRoom
    \/ AddMovie
    \/ SubmitFirstVote
    \/ MarkVotingComplete
    \/ RoomsMarkVotingComplete
    \/ ResetVotingCompletion

SpecStatus == Init /\ [][NextStatus]_vars

\* several rooms, the calls of convex/rooms on them
NextRooms ==
    \/ Tick
    \/ CreateRoom
    \/ JoinRoom
    \/ JoinRoomByCode
    \/ LeaveRoom
    \/ GetRoom
    \/ GetRoomByCode

SpecRooms == Init /\ [][NextRooms]_vars

\* several rooms and their setup: the calls of populateRoomWithMovies,
\* interleaved with each other and with direct addMovie calls
NextSetup ==
    \/ CreateRoom
    \/ AddMovie
    \/ PopulateStart
    \/ PopulateAddMovie
    \/ PopulateLink

SpecSetup == Init /\ [][NextSetup]_vars

\* one room with its slate, and the clients that page through it
NextClient ==
    \/ Tick
    \/ CreateFirstRoom
    \/ JoinRoom
    \/ LeaveRoom
    \/ AddMovie
    \/ LinkMoviesToRoom
    \/ ClientOpenRoom
    \/ ClientSwipe
    \/ ClientMarkComplete

SpecClient == Init /\ [][NextClient]_vars

(* ------------------------------ properties ----------------------------- *)
Members(r) == {roomParticipants[r][i].participantId : i \in DOMAIN roomParticipants[r]}

PastExpiry(r) == rooms[r].expiresAt < now

Closed(r) == rooms[r].status \in {"expired", "completed"}

\* C1: code uniqueness -- no two stored rooms, of any status, share a code,
\* whatever codes the createRoom calls draw.
C1_CodeUniqueness ==
    \A i, j \in DOMAIN rooms : i # j => rooms[i].code # rooms[j].code

\* a second room was created while the first room's code was stored
C1_Witness == Len(rooms) >= 2

\* C2: capacity invariant -- every room has at most maxParticipants
\* RoomParticipant rows, for any maxParticipants given to createRoom.
C2_CapacityInvariant ==
    \A r \in DOMAIN rooms : Len(roomParticipants[r]) <= rooms[r].maxParticipants

\* C3: vote upsert -- at most one Vote row per (roomId, movieId,
\* participantId); the rows are exactly the accepted votes with their latest
\* voteType; a submitVote on a key that has a row patches it and returns
\* updated = true, on a key without a row inserts one and returns
\* updated = false.
C3_VoteUpsert ==
    /\ \A r \in RoomIds : \A i, j \in DOMAIN votes[r] :
          i # j => ~SameKey(votes[r][i], r, votes[r][j].movieId, votes[r][j].participantId)
    /\ Range(latestVote) = UNION {Range(votes[r]) : r \in RoomIds}
    /\ \A r \in RoomIds, m \in MovieIds, p \in Participants, t \in VoteTypes :
          LET out == submitVote(DB, r, m, p, t, now)
              had == \E i \in DOMAIN votes[r] : SameKey(votes[r][i], r, m, p)
              after == Commit(DB, out).votes[r]
              row == [roomId |-> r, movieId |-> m, participantId |-> p, voteType |-> t]
          IN  ~out.threw =>
                /\ out.val.updated = had
                /\ Len(after) = Len(votes[r]) + (IF had THEN 0 ELSE 1)
                /\ Len(SelectSeq(after, LAMBDA v : SameKey(v, r, m, p))) = 1
                /\ \E i \in DOMAIN after : after[i] = row

\* a vote was resubmitted with the other voteType: the row inserted first is
\* the vote accepted last, and a later row exists
C3_Witness ==
    \E r \in RoomIds :
        /\ Len(votes[r]) >= 2
        /\ latestVote[Len(latestVote)] = votes[r][1]
        /\ votes[r][1].voteType = "dislike"

\* C4: expiry monotonicity -- while a room's stored status is expired or
\* completed, every joinRoom, joinRoomByCode and submitVote on it fails, no
\* step adds a RoomParticipant row to it and no step adds or changes a Vote
\* row of it.
C4_ExpiryMonotonicity ==
    [][\A r \in DOMAIN rooms : Closed(r) =>
          /\ \A p \in Participants :
                /\ joinRoom(DB, r, p, now).threw
                /\ joinRoomByCode(DB, rooms[r].code, p, now).threw
                /\ \A m \in MovieIds, t \in VoteTypes : submitVote(DB, r, m, p, t, now).threw
          /\ Range(roomParticipants'[r]) \subseteq Range(roomParticipants[r])
          /\ votes'[r] = votes[r]]_vars

\* a room that holds votes was emptied, and so completed
C4_Witness ==
    \E r \in DOMAIN rooms : rooms[r].status = "completed" /\ votes[r] # <<>>

\* C5: status transitions are monotonic -- every change of a room's stored
\* status goes from active to completed or from active to expired; rooms
\* are never removed.
C5_StatusMonotonic ==
    [][/\ DOMAIN rooms \subseteq DOMAIN rooms'
       /\ \A r \in DOMAIN rooms :
             rooms'[r].status # rooms[r].status =>
                 /\ rooms[r].status = "active"
                 /\ rooms'[r].status \in {"completed", "expired"}]_vars

\* a room was completed and its expiry time has passed since
C5_Witness ==
    \E r \in DOMAIN rooms : rooms[r].status = "completed" /\ PastExpiry(r)

\* C6: persisted expiry -- a joinRoom, joinRoomByCode or submitVote on a room
\* stored as active with expiresAt < now fails with the expired error and
\* leaves the stored status expired, so that a getRoom after it reads
\* expired from the store.
C6_PersistedExpiry ==
    \A r \in DOMAIN rooms : (rooms[r].status = "active" /\ PastExpiry(r)) =>
        \A p \in Participants :
            LET Persists(out) ==
                    /\ out.threw
                    /\ out.err = "Room has expired"
                    /\ Commit(DB, out).rooms[r].status = "expired"
            IN  /\ Persists(joinRoom(DB, r, p, now))
                /\ Persists(joinRoomByCode(DB, rooms[r].code, p, now))
                /\ \A m \in MovieIds, t \in VoteTypes : Persists(submitVote(DB, r, m, p, t, now))

\* the response the claim gives for a stored room at the time of the read
ExpectedRead(room) ==
    [room EXCEPT !.status = IF room.expiresAt < now /\ room.status = "active"
                            THEN "expired" ELSE room.status]

\* C7: lazy-expiry read projection -- getRoom and getRoomByCode answer with
\* the stored room, its status replaced by expired when expiresAt < now and
\* the stored status is active and left as stored otherwise, answer null
\* for a room that is not stored, and change no stored row.
C7_ReadProjection ==
    [][(lastRead'.op # "none" /\ lastRead' # lastRead) =>
          /\ UNCHANGED store
          /\ lastRead'.op = "getRoom" =>
                IF lastRead'.arg \in DOMAIN rooms
                THEN lastRead'.val = ExpectedRead(rooms[lastRead'.arg])
                ELSE lastRead'.val = Null
          /\ lastRead'.op = "getRoomByCode" =>
                IF \E r \in DOMAIN rooms : rooms[r].code = lastRead'.arg
                THEN \E r \in DOMAIN rooms : /\ rooms[r].code = lastRead'.arg
                                             /\ lastRead'.val = ExpectedRead(rooms[r])
                ELSE lastRead'.val = Null]_vars

\* a read answered expired for a room that is stored as active
C7_Witness ==
    /\ lastRead.op = "getRoom"
    /\ lastRead.arg \in DOMAIN rooms
    /\ rooms[lastRead.arg].status = "active"
    /\ lastRead.val.status = "expired"

HasVote(r, m, p, t) ==
    \E i \in DOMAIN votes[r] :
        votes[r][i] = [roomId |-> r, movieId |-> m, participantId |-> p, voteType |-> t]

\* C8: isMatch means unanimous approval by the current roster -- when
\* getResults reports isMatch for a movie, every current participant has a
\* stored like for it and none a dislike.
C8_IsMatchUnanimous ==
    \A r \in DOMAIN rooms :
        LET results == getResults(DB, r)
        IN  \A k \in DOMAIN results : results[k].isMatch =>
                \A p \in Members(r) : /\ HasVote(r, results[k].movieId, p, "like")
                                      /\ ~HasVote(r, results[k].movieId, p, "dislike")

\* the participants whose latest accepted vote on movie m in room r is t
LatestVoters(r, m, t) ==
    {p \in Participants : \E i \in DOMAIN latestVote :
        latestVote[i] = [roomId |-> r, movieId |-> m, participantId |-> p, voteType |-> t]}

\* C9: no double counting -- in getResults and in getDetailedResults the
\* likes and dislikes of a movie are the numbers of distinct participants
\* whose latest submitted vote on it is like, respectively dislike, and
\* totalVotes is their sum, the number of distinct voters.
C9_NoDoubleCounting ==
    \A r \in DOMAIN rooms :
        LET results == getResults(DB, r)
            detailed == getDetailedResults(DB, r).results
            likes(m) == Cardinality(LatestVoters(r, m, "like"))
            dislikes(m) == Cardinality(LatestVoters(r, m, "dislike"))
            voters(m) == Cardinality(LatestVoters(r, m, "like") \cup LatestVoters(r, m, "dislike"))
        IN  /\ \A k \in DOMAIN results :
                  /\ results[k].likes = likes(results[k].movieId)
                  /\ results[k].dislikes = dislikes(results[k].movieId)
                  /\ results[k].totalVotes = results[k].likes + results[k].dislikes
                  /\ results[k].totalVotes = voters(results[k].movieId)
            /\ \A k \in DOMAIN detailed :
                  /\ detailed[k].positiveVotes = likes(detailed[k].movieId)
                  /\ detailed[k].negativeVotes = dislikes(detailed[k].movieId)
                  /\ detailed[k].totalVotes = detailed[k].positiveVotes + detailed[k].negativeVotes
                  /\ detailed[k].totalVotes = voters(detailed[k].movieId)

\* a participant resubmitted a vote as dislike, and both result lists show the
\* movie with that one dislike next to another participant's like
C9_Witness ==
    \E r \in DOMAIN rooms :
        /\ Len(votes[r]) = 2
        /\ latestVote[Len(latestVote)] = votes[r][1]
        /\ votes[r][1].voteType = "dislike"
        /\ Len(getResults(DB, r)) = 1
        /\ getResults(DB, r)[1].likes = 1
        /\ getResults(DB, r)[1].dislikes = 1
        /\ Len(getDetailedResults(DB, r).results) = 1
        /\ getDetailedResults(DB, r).results[1].negativeVotes = 1

\* the room of scenario 1, open for joins, its host still a member
Scenario1Room(r) ==
    /\ rooms[r].maxParticipants = 2
    /\ rooms[r].status = "active"
    /\ ~PastExpiry(r)
    /\ rooms[r].hostId \in Members(r)

\* joins by participants who are not members succeed while fewer than k
\* members besides the host have joined, and fail with the room-full error,
\* adding no row, from then on
JoinsUntilFull(r, k) ==
    \A p \in Participants \ Members(r) :
        LET out == joinRoom(DB, r, p, now)
            after == Commit(DB, out).roomParticipants[r]
        IN  IF Len(roomParticipants[r]) - 1 < k
            THEN ~out.threw /\ Len(after) = Len(roomParticipants[r]) + 1
            ELSE out.threw /\ out.err = "Room is full" /\ after = roomParticipants[r]

\* C10 as stated: scenario 1 -- after createRoom with maxParticipants = 2 two
\* joins by distinct participants succeed and the third fails with the
\* room-full error and adds no row.
C10_Scenario1AsStated ==
    \A r \in DOMAIN rooms : Scenario1Room(r) => JoinsUntilFull(r, 2)

\* C10 amended: scenario 1 -- after createRoom with maxParticipants = 2 the
\* host holds one of the two places: one join by a distinct participant
\* succeeds and the next join by another distinct participant fails with the
\* room-full error and adds no row.
C10_Scenario1 ==
    \A r \in DOMAIN rooms : Scenario1Room(r) => JoinsUntilFull(r, 1)

\* the room of scenario 1 after its one successful join, another
\* participant still outside
C10_Witness ==
    \E r \in DOMAIN rooms :
        /\ Scenario1Room(r)
        /\ Len(roomParticipants[r]) = 2
        /\ Participants \ Members(r) # {}

\* no room has two RoomParticipant rows of one participantId
NoDuplicateMembers ==
    \A r \in RoomIds : \A i, j \in DOMAIN roomParticipants[r] :
        i # j => roomParticipants[r][i].participantId # roomParticipants[r][j].participantId

\* a join of room r by a member fails with the duplicate-participant error
\* and adds no row
MemberJoinsRejected(r) ==
    \A p \in Members(r) :
        LET Rejected(out) ==
                /\ out.threw
                /\ out.err = "Already joined this room"
                /\ Commit(DB, out).roomParticipants = roomParticipants
        IN  /\ Rejected(joinRoom(DB, r, p, now))
            /\ Rejected(joinRoomByCode(DB, rooms[r].code, p, now))

\* C11 as stated: participant uniqueness -- no room has two RoomParticipant
\* rows with the same participantId, and a joinRoom or joinRoomByCode by a
\* participantId that is a member, the host included, fails with the
\* duplicate-participant error and adds no row.
C11_ParticipantUniquenessAsStated ==
    /\ NoDuplicateMembers
    /\ \A r \in DOMAIN rooms : MemberJoinsRejected(r)

\* C11 amended: participant uniqueness -- no room has two RoomParticipant
\* rows with the same participantId; a joinRoom or joinRoomByCode by a member
\* never adds a row, and fails with the duplicate-participant error while the
\* room is stored as active and expiresAt >= now, with the expired error
\* once expiresAt < now.
C11_ParticipantUniqueness ==
    /\ NoDuplicateMembers
    /\ \A r \in DOMAIN rooms :
          /\ (rooms[r].status = "active" /\ ~PastExpiry(r)) => MemberJoinsRejected(r)
          /\ \A p \in Members(r) :
                LET NoRow(out) ==
                        /\ out.threw
                        /\ PastExpiry(r) => out.err = "Room has expired"
                        /\ Commit(DB, out).roomParticipants = roomParticipants
                IN  /\ NoRow(joinRoom(DB, r, p, now))
                    /\ NoRow(joinRoomByCode(DB, rooms[r].code, p, now))

\* an open room that has room for more holds its host and a member who
\* joined, and another room holds members past its expiry
C11_Witness ==
    \E r, q \in DOMAIN rooms :
        /\ rooms[r].status = "active" /\ ~PastExpiry(r)
        /\ Len(roomParticipants[r]) = 2
        /\ rooms[r].maxParticipants > 2
        /\ rooms[r].hostId \in Members(r)
        /\ rooms[q].status = "active" /\ PastExpiry(q)
        /\ Members(q) # {}

\* the number of entries of a result list that are about movie m
Listed(results, m) == Cardinality({k \in DOMAIN results : results[k].movieId = m})

\* C12: result membership -- getResults lists a movie, once, exactly when the
\* room has a Vote row for it; getDetailedResults lists a movie, once, exactly
\* when the room has a like for it; a movie without votes is in neither list
\* and a movie with only dislikes is not in the list of getDetailedResults.
C12_ResultMembership ==
    \A r \in DOMAIN rooms :
        LET results == getResults(DB, r)
            detailed == getDetailedResults(DB, r).results
            voted == {votes[r][i].movieId : i \in DOMAIN votes[r]}
            liked == {votes[r][i].movieId :
                         i \in {j \in DOMAIN votes[r] : votes[r][j].voteType = "like"}}
        IN  /\ \A k \in DOMAIN results : results[k].movieId \in voted
            /\ \A k \in DOMAIN detailed : detailed[k].movieId \in liked
            /\ \A m \in MovieIds \cup DOMAIN movies :
                  /\ Listed(results, m) = (IF m \in voted THEN 1 ELSE 0)
                  /\ Listed(detailed, m) = (IF m \in liked THEN 1 ELSE 0)

\* a stored movie has two votes in a room, both dislikes: getResults lists it
\* once and getDetailedResults does not list it
C12_Witness ==
    \E r \in DOMAIN rooms :
        /\ Len(votes[r]) >= 2
        /\ \A i \in DOMAIN votes[r] : votes[r][i].voteType = "dislike"
        /\ Len(getResults(DB, r)) = 1
        /\ getDetailedResults(DB, r).results = <<>>

\* n is x = num / den rounded to the nearest integer, a half rounded up
IsRounded(n, num, den) == 2 * den * n <= 2 * num + den /\ 2 * num + den < 2 * den * (n + 1)

\* C13: getVotingProgress partitions the current participants -- completed +
\* pending = total, the completed and the pending are the participants with,
\* respectively without, votingCompletedAt set; completionPercentage is
\* 100 * completed / total rounded, 0 when total = 0 and 100 when
\* completed = total > 0; isAllComplete holds exactly when total > 0 and
\* every current participant has votingCompletedAt set.
C13_VotingProgress ==
    \A r \in RoomIds :
        LET progress == getVotingProgress(DB, r)
            total == progress.totalParticipants
            completed == progress.completedParticipants
            done == {p \in Members(r) : \E i \in DOMAIN roomParticipants[r] :
                        /\ roomParticipants[r][i].participantId = p
                        /\ roomParticipants[r][i].votingCompletedAt # Undefined}
        IN  /\ total = Len(roomParticipants[r])
            /\ completed + progress.pendingParticipants = total
            /\ Range(progress.completedParticipantIds) = done
            /\ Range(progress.pendingParticipantIds) = Members(r) \ done
            /\ Len(progress.completedParticipantIds) = completed
            /\ Len(progress.pendingParticipantIds) = progress.pendingParticipants
            /\ total = 0 => progress.completionPercentage = 0
            /\ total > 0 => IsRounded(progress.completionPercentage, 100 * completed, total)
            /\ (completed = total /\ total > 0) => progress.completionPercentage = 100
            /\ progress.isAllComplete <=> (total > 0 /\ done = Members(r))

\* two of the three participants of a room have completed: 67 percent
C13_Witness ==
    \E r \in DOMAIN rooms :
        /\ getVotingProgress(DB, r).totalParticipants = 3
        /\ getVotingProgress(DB, r).completedParticipants = 2
        /\ getVotingProgress(DB, r).completionPercentage = 67
        /\ ~getVotingProgress(DB, r).isAllComplete

\* C14: leaveRoom by a member deletes exactly that participant's membership
\* row; the stored status of the room becomes completed if and only if no
\* row of the room is left, and otherwise stays as it was; nothing else
\* changes.  leaveRoom by a non-member fails with the not-a-participant error
\* and changes nothing.
C14_LeaveRoom ==
    \A r \in RoomIds, p \in Participants :
        LET out == leaveRoom(DB, r, p)
            after == Commit(DB, out)
            rest == SelectSeq(roomParticipants[r], LAMBDA row : row.participantId # p)
        IN  IF p \in Members(r)
            THEN /\ ~out.threw
                 /\ after.roomParticipants = [roomParticipants EXCEPT ![r] = rest]
                 /\ Len(rest) = Len(roomParticipants[r]) - 1
                 /\ after.rooms = [rooms EXCEPT ![r].status =
                                      IF rest = <<>> THEN "completed" ELSE @]
                 /\ after.movies = movies
                 /\ after.votes = votes
                 /\ after.roomMovies = roomMovies
            ELSE /\ out.threw
                 /\ out.err = "Not a participant in this room"
                 /\ after = DB

\* the host left a room whose other members keep it active, and another room
\* was emptied and so completed
C14_Witness ==
    \E r, q \in DOMAIN rooms :
        /\ rooms[r].hostId \notin Members(r)
        /\ Members(r) # {}
        /\ rooms[r].status = "active"
        /\ roomParticipants[q] = <<>>
        /\ rooms[q].status = "completed"

\* the room and the host row the claim gives for a createRoom call
ExpectedRoom(code, category, hostId, maxParticipants) ==
    [code |-> code, category |-> category, hostId |-> hostId, status |-> "active",
     expiresAt |-> now + 24 * 60 * 60 * 1000,
     maxParticipants |-> IF maxParticipants = <<>> THEN 10 ELSE maxParticipants[1]]

\* every createRoom call that is given a code inserts that room and the host
\* row, and nothing else
CreateRoomInsertsBoth ==
    \A category \in Categories, hostId \in Hosts,
       maxParticipants \in MaxParticipantsArgs, alloc \in AllocOutcomes(DB, 0) :
        LET out == createRoom(DB, alloc, category, hostId, maxParticipants, now)
            after == Commit(DB, out)
            id == Len(rooms) + 1
        IN  alloc.ok =>
              /\ ~out.threw
              /\ out.val.roomId = id
              /\ after.rooms =
                    Append(rooms, ExpectedRoom(alloc.code, category, hostId, maxParticipants))
              /\ after.roomParticipants =
                    [roomParticipants EXCEPT ![id] =
                        <<[roomId |-> id, participantId |-> hostId,
                           votingCompletedAt |-> Undefined]>>]
              /\ after.movies = movies
              /\ after.votes = votes
              /\ after.roomMovies = roomMovies

\* C15: createRoom is one atomic step -- it inserts the Room (status active,
\* expiresAt = now + 24h, maxParticipants the supplied value, or 10 when
\* omitted) together with the host's RoomParticipant row; the step in which
\* a room appears is the step in which its host row appears, so that no
\* state holds a new room without it, and right after createRoom the
\* participants of the room are exactly {hostId}.
C15_CreateRoomAtomic ==
    /\ []CreateRoomInsertsBoth
    /\ [][Len(rooms') # Len(rooms) =>
             LET id == Len(rooms) + 1
             IN  /\ Len(rooms') = id
                 /\ rooms'[id].status = "active"
                 /\ rooms'[id].expiresAt = now + 24 * 60 * 60 * 1000
                 /\ Len(roomParticipants'[id]) = 1
                 /\ {roomParticipants'[id][i].participantId :
                        i \in DOMAIN roomParticipants'[id]} = {rooms'[id].hostId}
                 /\ \A r \in DOMAIN rooms : /\ rooms'[r] = rooms[r]
                                            /\ roomParticipants'[r] = roomParticipants[r]]_vars

\* two rooms just created, one with maxParticipants omitted and one with
\* maxParticipants = 2, each with its host as the only participant
C15_Witness ==
    /\ Len(rooms) = 2
    /\ rooms[1].maxParticipants = 10
    /\ rooms[2].maxParticipants = 2
    /\ \A r \in DOMAIN rooms : /\ rooms[r].expiresAt = now + 24 * 60 * 60 * 1000
                               /\ Len(roomParticipants[r]) = 1
                               /\ Members(r) = {rooms[r].hostId}

\* runs of generateRoomCode: k times the code u, the code c from then on
DrawRuns ==
    {[i \in 1 .. 11 |-> IF i <= k THEN u ELSE c] : k \in 0 .. 11, u \in Codes, c \in Codes}

\* C16: the code allocation of createRoom ends after at most 10 code
\* lookups; it fails, and createRoom then inserts no Room and no
\* RoomParticipant, exactly when the first 10 generated codes are all codes
\* of stored rooms; otherwise it succeeds with the first generated code that
\* no stored room has, found at its own lookup.
C16_CodeAllocation ==
    LET Stored(c) == \E r \in DOMAIN rooms : rooms[r].code = c
    IN  /\ \A draws \in DrawRuns :
              LET alloc == AllocRun(DB, draws, 0)
                  collide == \A i \in 1 .. 10 : Stored(draws[i])
              IN  /\ alloc \in AllocOutcomes(DB, 0)
                  /\ alloc.lookups \in 1 .. 10
                  /\ alloc.ok <=> ~collide
                  /\ alloc.ok =>
                        /\ alloc.code = draws[alloc.lookups]
                        /\ ~Stored(alloc.code)
                        /\ \A i \in 1 .. (alloc.lookups - 1) : Stored(draws[i])
                  /\ ~alloc.ok =>
                        \A category \in Categories, hostId \in Hosts,
                           maxParticipants \in MaxParticipantsArgs :
                            LET out == createRoom(DB, alloc, category, hostId,
                                                  maxParticipants, now)
                            IN  /\ out.threw
                                /\ out.err = "Failed to generate unique room code"
                                /\ Commit(DB, out) = DB
        /\ AllocOutcomes(DB, 0) = {AllocRun(DB, draws, 0) : draws \in DrawRuns}

\* every code that can be generated is the code of a stored room: each
\* createRoom call makes its 10 lookups and fails
C16_Witness ==
    /\ \A c \in Codes : RoomByCode(DB, c) # 0
    /\ AllocOutcomes(DB, 0) = {[ok |-> FALSE, code |-> 0, lookups |-> 10]}

\* what the claim requires of a submitVote call for it to write a vote
MayVote(r, m, p) ==
    /\ r \in DOMAIN rooms
    /\ rooms[r].status = "active"
    /\ rooms[r].expiresAt >= now
    /\ p \in Members(r)
    /\ m \in DOMAIN movies

\* the Vote rows that are not the row of the key (r, m, p)
OtherVotes(vs, r, m, p) ==
    [q \in RoomIds |-> SelectSeq(vs[q], LAMBDA v : ~SameKey(v, r, m, p))]

\* a submitVote call succeeds exactly when MayVote holds; a failing call has
\* the error of the first test it fails and leaves every table as it was
SubmitVoteGuarded ==
    \A r \in RoomIds, m \in MovieIds, p \in Participants, t \in VoteTypes :
        LET out == submitVote(DB, r, m, p, t, now)
            after == Commit(DB, out)
        IN  /\ out.threw <=> ~MayVote(r, m, p)
            /\ out.threw =>
                  /\ after = DB
                  /\ out.err = IF r \notin DOMAIN rooms THEN "Room not found"
                               ELSE IF rooms[r].status # "active"
                                    THEN "Room is " \o rooms[r].status
                               ELSE IF rooms[r].expiresAt < now THEN "Room has expired"
                               ELSE IF p \notin Members(r)
                                    THEN "Not a participant in this room"
                               ELSE "Movie not found"
            /\ ~out.threw => OtherVotes(after.votes, r, m, p) = OtherVotes(votes, r, m, p)

\* C17: submitVote creates or changes a Vote only when, at the time of the
\* call, the room exists with stored status active and expiresAt >= now, the
\* participantId has a membership row in the room and the movie exists; in
\* every failing case -- room or movie not found, room not active, room
\* expired, caller not a participant -- the Vote rows are unchanged.
C17_SubmitVoteGuards ==
    /\ []SubmitVoteGuarded
    /\ [][votes' # votes =>
             \E r \in RoomIds, m \in MovieIds, p \in Participants :
                 /\ MayVote(r, m, p)
                 /\ OtherVotes(votes', r, m, p) = OtherVotes(votes, r, m, p)]_vars

\* a room that holds a vote has passed its expiry while stored as active, a
\* participant is outside of it, and a second room id is not stored
C17_Witness ==
    \E r \in DOMAIN rooms :
        /\ votes[r] # <<>>
        /\ rooms[r].status = "active"
        /\ PastExpiry(r)
        /\ Participants \ Members(r) # {}
        /\ RoomIds \ DOMAIN rooms # {}

\* C18: movie dedup -- no two Movie rows share a tmdbId, also while calls of
\* populateRoomWithMovies for different rooms add overlapping candidates;
\* addMovie with a stored tmdbId returns the id of the stored movie and
\* leaves its fields, and the table, as they were, and with a new tmdbId
\* inserts one row.
C18_MovieDedup ==
    /\ \A i, j \in DOMAIN movies : i # j => movies[i].tmdbId # movies[j].tmdbId
    /\ \A tmdbId \in CatalogIds, title \in {c.title : c \in Candidates} \ {NoTitle} :
          LET out == addMovie(DB, tmdbId, title)
              after == Commit(DB, out)
              stored == {i \in DOMAIN movies : movies[i].tmdbId = tmdbId}
          IN  /\ ~out.threw
              /\ IF stored # {}
                 THEN /\ out.val \in stored
                      /\ after = DB
                 ELSE /\ out.val = Len(movies) + 1
                      /\ after.movies =
                            Append(movies, [tmdbId |-> tmdbId, title |-> title])

\* two calls of populateRoomWithMovies, for different rooms and both in
\* flight, have each added a candidate of the same tmdbId under a different
\* title: both hold the id of the one stored movie, which has the title it
\* was first added with
C18_Witness ==
    \E k, l \in DOMAIN populating :
        /\ populating[k].roomId # populating[l].roomId
        /\ populating[k].pc = "adding" /\ populating[l].pc = "adding"
        /\ populating[k].i = 1 /\ populating[l].i = 1
        /\ populating[k].moviesToAdd[1].id = populating[l].moviesToAdd[1].id
        /\ populating[k].moviesToAdd[1].title # populating[l].moviesToAdd[1].title
        /\ populating[k].movieIds = populating[l].movieIds
        /\ Len(populating[k].movieIds) = 1
        /\ movies[populating[k].movieIds[1]].title = populating[k].moviesToAdd[1].title
        /\ Len(movies) = 1

\* the candidates of a call whose addMovie did not fail, in fetch order
Succeeded(call) == SelectSeq(call.moviesToAdd, LAMBDA c : c.title # NoTitle)

\* the links the claim gives for a call, over the movies table ms
ExpectedLinks(call, ms) ==
    [j \in DOMAIN Succeeded(call) |->
        [roomId |-> call.roomId,
         movieId |-> CHOOSE id \in DOMAIN ms : ms[id].tmdbId = Succeeded(call)[j].id,
         position |-> j - 1]]

\* C19: slate positions -- when the first populateRoomWithMovies of a room
\* completes, the RoomMovie rows of the room have pairwise distinct positions
\* that are exactly 0..K-1, K the number of candidates whose addMovie
\* succeeded; failed candidates leave no gap, and the links are the movies
\* of the successful candidates in fetch order.
C19_SlatePositions ==
    [][\A k \in DOMAIN populating :
          (/\ populating[k].pc = "adding"
           /\ populating'[k].pc = "done"
           /\ roomMovies[populating[k].roomId] = <<>>) =>
              LET call == populating[k]
                  links == roomMovies'[call.roomId]
                  K == Len(Succeeded(call))
              IN  /\ Len(links) = K
                  /\ {links[j].position : j \in DOMAIN links} = 0 .. (K - 1)
                  /\ \A a, b \in DOMAIN links :
                        a # b => links[a].position # links[b].position
                  /\ links = ExpectedLinks(call, movies')]_vars

\* the only call for a room has ended: its first candidate failed and its
\* second was added, and the room has the one link, at position 0
C19_Witness ==
    \E k \in DOMAIN populating :
        /\ populating[k].pc = "done"
        /\ \A l \in DOMAIN populating : l # k => populating[l].roomId # populating[k].roomId
        /\ Len(populating[k].moviesToAdd) = 2
        /\ populating[k].moviesToAdd[1].title = NoTitle
        /\ Len(roomMovies[populating[k].roomId]) = 1
        /\ roomMovies[populating[k].roomId][1].position = 0

\* C20: the two scoring formulas -- for a movie listed by getResults and by
\* getDetailedResults, matchScore (likes over the current participant count)
\* equals matchPercentage (likes over the votes on the movie) whenever the
\* number of votes on the movie equals the current participant count; with 3
\* participants, 2 likes and 1 dislike give 67 in both and isMatch = false,
\* and 2 likes from 2 of the 3 participants give matchScore 67 and
\* matchPercentage 100.
C20_ScoringFormulas ==
    \A r \in DOMAIN rooms :
        LET results == getResults(DB, r)
            detailed == getDetailedResults(DB, r).results
            count == Len(roomParticipants[r])
        IN  \A a \in DOMAIN results, b \in DOMAIN detailed :
                results[a].movieId = detailed[b].movieId =>
                    /\ detailed[b].totalVotes = count =>
                          results[a].matchScore = detailed[b].matchPercentage
                    /\ (count = 3 /\ detailed[b].positiveVotes = 2
                                  /\ detailed[b].negativeVotes = 1) =>
                          /\ results[a].matchScore = 67
                          /\ detailed[b].matchPercentage = 67
                          /\ ~results[a].isMatch
                    /\ (count = 3 /\ detailed[b].positiveVotes = 2
                                  /\ detailed[b].negativeVotes = 0) =>
                          /\ results[a].matchScore = 67
                          /\ detailed[b].matchPercentage = 100

\* scenario 3: the three participants of a room have voted on a movie, two
\* of them like and one dislike
C20_Witness ==
    \E r \in DOMAIN rooms :
        /\ Cardinality(Members(r)) = 3
        /\ Len(votes[r]) = 3
        /\ \A i \in DOMAIN votes[r] : votes[r][i].participantId \in Members(r)
        /\ Len(getDetailedResults(DB, r).results) = 1
        /\ getDetailedResults(DB, r).results[1].positiveVotes = 2
        /\ getDetailedResults(DB, r).results[1].negativeVotes = 1

\* the stored votingCompletedAt of member p of room r
CompletedAt(db, r, p) ==
    db.roomParticipants[r][ParticipantIdx(db, r, p)].votingCompletedAt

\* C21: double completion -- the markVotingComplete of convex/votes and the
\* one of convex/rooms both fail, without a write, for a non-member, and both
\* succeed with the same stored state for a member who is not complete; for
\* a member who is complete the first succeeds and the member stays
\* complete, the second fails with `Voting already completed` and leaves
\* votingCompletedAt as it was.
C21_DoubleCompletion ==
    \A r \in RoomIds, p \in Participants :
        LET viaVotes == markVotingComplete(DB, r, p, now)
            viaRooms == roomsMarkVotingComplete(DB, r, p, now)
        IN  IF p \notin Members(r)
            THEN /\ viaVotes.threw /\ viaRooms.threw
                 /\ Commit(DB, viaVotes) = DB /\ Commit(DB, viaRooms) = DB
            ELSE IF CompletedAt(DB, r, p) = Undefined
            THEN /\ ~viaVotes.threw /\ ~viaRooms.threw
                 /\ Commit(DB, viaVotes) = Commit(DB, viaRooms)
                 /\ CompletedAt(Commit(DB, viaVotes), r, p) = now
            ELSE /\ ~viaVotes.threw
                 /\ CompletedAt(Commit(DB, viaVotes), r, p) # Undefined
                 /\ viaRooms.threw
                 /\ viaRooms.err = "Voting already completed"
                 /\ Commit(DB, viaRooms) = DB

\* a room holds a member who completed at an earlier time and a member who
\* is not complete, and a participant is outside of it
C21_Witness ==
    \E r \in DOMAIN rooms : \E p, q \in Members(r) :
        /\ CompletedAt(DB, r, p) # Undefined
        /\ CompletedAt(DB, r, p) < now
        /\ CompletedAt(DB, r, q) = Undefined
        /\ Participants \ Members(r) # {}

\* C22: completion means the slate was voted on -- in the client flow a
\* participant's votingCompletedAt is set only when the participant has a
\* stored Vote for every movie of the room's slate, also when submitVote
\* calls of the flow failed.
C22_CompletionMeansVoted ==
    \A r \in DOMAIN rooms : \A i \in DOMAIN roomParticipants[r] :
        roomParticipants[r][i].votingCompletedAt # Undefined =>
            \A k \in DOMAIN getRoomMovies(DB, r) :
                \E t \in VoteTypes :
                    HasVote(r, getRoomMovies(DB, r)[k].id,
                            roomParticipants[r][i].participantId, t)

\* C23: host by position -- in every room with at least one participant the
\* first row getParticipants returns, the first in storage order, is the row
\* of the room's hostId.
C23_HostByPosition ==
    \A r \in DOMAIN rooms :
        getParticipants(DB, r) # <<>> =>
            getParticipants(DB, r)[1].participantId = rooms[r].hostId

\* call k runs for the room, and on the candidates, of a call that has ended
SecondRun(k) ==
    \E l \in DOMAIN populating :
        /\ l # k
        /\ populating[l].pc = "done"
        /\ populating[l].roomId = populating[k].roomId
        /\ populating[l].moviesToAdd = populating[k].moviesToAdd

\* the calls that have ended for the room of call k
EndedFor(k) ==
    {l \in DOMAIN populating : /\ populating[l].pc = "done"
                               /\ populating[l].roomId = populating[k].roomId}

\* C24: populateRoomWithMovies is not idempotent per room -- after two runs
\* for one room on the same candidates the room has two RoomMovie links per
\* linked movie, each position 0..N-1 occurring twice (after R runs, R
\* times), while the addMovie calls of the second run add no Movie row.
C24_PopulateTwice ==
    /\ [](\A k \in DOMAIN populating :
             (/\ populating[k].pc = "done"
              /\ SecondRun(k)
              /\ \A l \in EndedFor(k) :
                    populating[l].moviesToAdd = populating[k].moviesToAdd) =>
                 LET links == roomMovies[populating[k].roomId]
                     N == Len(populating[k].movieIds)
                     R == Cardinality(EndedFor(k))
                     At(n) == {j \in DOMAIN links : links[j].position = n}
                 IN  /\ R >= 2
                     /\ Len(links) = R * N
                     /\ \A n \in 0 .. (N - 1) :
                           /\ Cardinality(At(n)) = R
                           /\ \A a, b \in At(n) : links[a].movieId = links[b].movieId
                     /\ \A j \in DOMAIN links : links[j].position \in 0 .. (N - 1))
    /\ [][\A k \in DOMAIN populating :
             (/\ populating[k].pc = "adding"
              /\ SecondRun(k)
              /\ populating'[k].i # populating[k].i) => movies' = movies]_vars

\* the two calls for a room have ended, both on the same two candidates that
\* were added: the room has four links
C24_Witness ==
    \E k, l \in DOMAIN populating :
        /\ k # l
        /\ populating[k].pc = "done" /\ populating[l].pc = "done"
        /\ populating[k].roomId = populating[l].roomId
        /\ populating[k].moviesToAdd = populating[l].moviesToAdd
        /\ Len(populating[k].movieIds) = 2
        /\ populating[k].movieIds[1] # populating[k].movieIds[2]
        /\ Len(roomMovies[populating[k].roomId]) = 4

\* C25: resetVotingCompletion on a member clears votingCompletedAt, so that
\* getVotingProgress counts the member as pending and nothing else changes;
\* after markVotingComplete it restores the state before the completion, on
\* a pending member it succeeds and changes nothing, and for a non-member it
\* fails with the not-found error and leaves every row as it was.
C25_ResetCompletion ==
    \A r \in RoomIds, p \in Participants :
        LET out == resetVotingCompletion(DB, r, p)
            after == Commit(DB, out)
            marked == Commit(DB, markVotingComplete(DB, r, p, now))
            undone == Commit(marked, resetVotingCompletion(marked, r, p))
        IN  IF p \in Members(r)
            THEN /\ ~out.threw
                 /\ CompletedAt(after, r, p) = Undefined
                 /\ after = [DB EXCEPT !.roomParticipants[r][ParticipantIdx(DB, r, p)]
                                          .votingCompletedAt = Undefined]
                 /\ p \in Range(getVotingProgress(after, r).pendingParticipantIds)
                 /\ p \notin Range(getVotingProgress(after, r).completedParticipantIds)
                 /\ CompletedAt(DB, r, p) = Undefined => after = DB
                 /\ p \in Range(getVotingProgress(marked, r).completedParticipantIds)
                 /\ undone = after
            ELSE /\ out.threw
                 /\ out.err = "Participant not found in room"
                 /\ after = DB

\* a member who had completed is stored as pending again, next to a member
\* who is complete
C25_Witness ==
    \E r \in DOMAIN rooms : \E p, q \in Members(r) :
        /\ CompletedAt(DB, r, p) = Undefined
        /\ CompletedAt(DB, r, q) # Undefined
        /\ getVotingProgress(DB, r).completedParticipants = 1
        /\ getVotingProgress(DB, r).totalParticipants = 3

\* C26: match score is a percentage -- for every movie getResults lists,
\* 0 <= matchScore <= 100.
C26_MatchScorePercentage ==
    \A r \in DOMAIN rooms :
        \A k \in DOMAIN getResults(DB, r) :
            /\ 0 <= getResults(DB, r)[k].matchScore
            /\ getResults(DB, r)[k].matchScore <= 100

\* C27: a room's stored status is completed if and only if the room has no
\* RoomParticipant row; so every room stored as active has a participant,
\* and no join adds a participant to a room that has been emptied.
C27_CompletedIffEmpty ==
    \A r \in DOMAIN rooms :
        /\ rooms[r].status = "completed" <=> roomParticipants[r] = <<>>
        /\ rooms[r].status = "active" => Len(roomParticipants[r]) >= 1
        /\ roomParticipants[r] = <<>> =>
              \A p \in Participants :
                  /\ joinRoom(DB, r, p, now).threw
                  /\ joinRoomByCode(DB, rooms[r].code, p, now).threw
                  /\ Commit(DB, joinRoom(DB, r, p, now)) = DB
                  /\ Commit(DB, joinRoomByCode(DB, rooms[r].code, p, now)) = DB

\* a room was emptied and is completed while the other room, which its host
\* has left, is active with the member who joined
C27_Witness ==
    \E r, q \in DOMAIN rooms :
        /\ rooms[r].status = "completed"
        /\ roomParticipants[r] = <<>>
        /\ rooms[q].status = "active"
        /\ Len(roomParticipants[q]) = 1
        /\ rooms[q].hostId \notin Members(q)
        /\ ~PastExpiry(q)

\* the error the claim's order of checks gives a join of room r by p, "" if
\* the join passes them all
JoinError(r, p) ==
    IF r \notin DOMAIN rooms THEN "Room not found"
    ELSE IF rooms[r].status # "active" THEN "Room is " \o rooms[r].status
    ELSE IF rooms[r].expiresAt < now THEN "Room has expired"
    ELSE IF p \in Members(r) THEN "Already joined this room"
    ELSE IF Len(roomParticipants[r]) >= rooms[r].maxParticipants THEN "Room is full"
    ELSE ""

\* C28: joinRoomByCode(code, p) is equivalent to joinRoom(roomId, p) for the
\* room stored under the code -- both apply the checks room not found,
\* status not active, expired, already joined, room full in this order,
\* succeed or fail with the same error in the same states, and leave the
\* same stored state; a code no room has is a room not found.
C28_JoinByCodeEquivalent ==
    \A code \in Codes, p \in Participants :
        LET byCode == joinRoomByCode(DB, code, p, now)
            stored == {r \in DOMAIN rooms : rooms[r].code = code}
        IN  IF stored = {}
            THEN /\ byCode.threw
                 /\ byCode.err = "Room not found"
                 /\ Commit(DB, byCode) = DB
                 /\ \A r \in RoomIds \ DOMAIN rooms :
                       /\ joinRoom(DB, r, p, now).threw
                       /\ joinRoom(DB, r, p, now).err = "Room not found"
            ELSE \A r \in stored :
                    LET byId == joinRoom(DB, r, p, now)
                    IN  /\ byCode.threw = byId.threw
                        /\ byCode.err = byId.err
                        /\ byId.err = JoinError(r, p)
                        /\ Commit(DB, byCode) = Commit(DB, byId)
                        /\ ~byCode.threw => byCode.val.roomId = r

\* one room is full with its host and a member, the other has passed its
\* expiry with its host in it
C28_Witness ==
    \E r, q \in DOMAIN rooms :
        /\ rooms[r].status = "active" /\ ~PastExpiry(r)
        /\ Len(roomParticipants[r]) = 2
        /\ rooms[r].maxParticipants = 2
        /\ rooms[q].status = "active" /\ PastExpiry(q)
        /\ rooms[q].hostId \in Members(q)

\* the calls of populateRoomWithMovies for room r
CallsFor(r) == {k \in DOMAIN populating : populating[k].roomId = r}

\* C29: atomic slate visibility -- while the single populateRoomWithMovies
\* call of a room runs, and after it, getRoomMovies of the room returns
\* either no movie or the complete slate, the movies of all candidates that
\* were added, in fetch order; it returns no movie before the call has
\* ended, and never a shorter non-empty list.
C29_AtomicSlate ==
    \A r \in DOMAIN rooms : \A k \in CallsFor(r) :
        CallsFor(r) = {k} =>
            LET call == populating[k]
                shown == getRoomMovies(DB, r)
                final == Succeeded(call)
            IN  /\ Len(shown) \in {0, Len(final)}
                /\ call.pc # "done" => shown = <<>>
                /\ call.pc = "done" =>
                      /\ Len(shown) = Len(final)
                      /\ \A j \in DOMAIN shown : shown[j].tmdbId = final[j].id

\* the single call of a room has added both of its candidates to the movies
\* table and has not linked them: the room shows no movie
C29_Witness ==
    \E r \in DOMAIN rooms : \E k \in CallsFor(r) :
        /\ CallsFor(r) = {k}
        /\ populating[k].pc = "adding"
        /\ populating[k].i = 2
        /\ Len(populating[k].movieIds) = 2
        /\ Len(movies) = 2
        /\ getRoomMovies(DB, r) = <<>>

\* getVotingProgress reports isAllComplete for room r
GroupComplete(r) == getVotingProgress(DB, r).isAllComplete

\* C30 as stated: stability of group completion -- once getVotingProgress
\* reports isAllComplete for a room it keeps reporting it over every step
\* that is not a resetVotingCompletion call: join, leave, submitVote,
\* markVotingComplete.
C30_GroupCompletionStableAsStated ==
    [][\A r \in RoomIds :
          (GroupComplete(r) /\ ~ResetVotingCompletion) => GroupComplete(r)']_vars

\* C30 amended: once getVotingProgress reports isAllComplete for a room it
\* keeps reporting it over every step that is not a resetVotingCompletion
\* call, adds no participant to the room and does not remove its last
\* participant: submitVote, markVotingComplete, failed joins and the leave
\* of a member who is not the last.
C30_GroupCompletionStable ==
    [][\A r \in RoomIds :
          (/\ GroupComplete(r)
           /\ ~ResetVotingCompletion
           /\ {roomParticipants'[r][i].participantId :
                   i \in DOMAIN roomParticipants'[r]} \subseteq Members(r)
           /\ roomParticipants'[r] # <<>>) => GroupComplete(r)']_vars

\* a room whose group is complete after one of its members, the host, has
\* left, with the vote of a member stored
C30_Witness ==
    \E r \in DOMAIN rooms :
        /\ GroupComplete(r)
        /\ rooms[r].hostId \notin Members(r)
        /\ Len(roomParticipants[r]) = 2
        /\ votes[r] # <<>>

====
